---- MODULE Spec2Model ----
(***************************************************************************)
(* Model of the Claude Code task registry of voice-mcp-server              *)
(* (src/src/claude-code.ts) together with the command runner it drives     *)
(* (execute.ts) and the tmux sessions the commands act on.                 *)
(*                                                                         *)
(* The server is a single-threaded Node.js process: the code between two   *)
(* awaits runs atomically, and every `await executeCommand(...)` suspends  *)
(* the handler while the shell command runs.  Each handler is therefore    *)
(* cut at its awaits: one action per segment, one environment action       *)
(* (ExecCmd) for the command itself.                                       *)
(***************************************************************************)
EXTENDS Integers, Sequences, FiniteSets, TLC

VARIABLES
    now,        \* Date.now(), in milliseconds
    objs,       \* the ClaudeCodeTask objects ever created (the heap), by creation order
    tasks,      \* const tasks = new Map<string, ClaudeCodeTask>(): task id -> object
    order,      \* insertion order of the Map's keys (the order of tasks.values())
    sessions,   \* names of the tmux sessions that exist
    ops,        \* the handler invocations in flight, by slot
    calls,      \* handler invocations made so far
    observed,   \* history: the ids some handler has reported a status other than 'running' for
    timedOut,   \* history: the ids whose start call returned at its timeout
    ret,        \* the value a handler returned in the step just taken (NoRet: none did)
    clients,    \* const clients = new Map<string, OAuthClient>(): client_id -> client
    authCodes,  \* const authCodes = new Map<string, AuthCode>(): code -> record
    accessTokens, \* const accessTokens = new Map<string, AccessToken>(): token -> record
    uuids,      \* uuidv4() calls made so far; the n-th call returns the uuid n
    http,       \* the HTTP request last received, with the response once it is served
    issued      \* history: the codes and tokens created, with what they were created on

vars == <<now, objs, tasks, order, sessions, ops, calls, observed, timedOut, ret,
          clients, authCodes, accessTokens, uuids, http, issued>>

\* the OAuth stores and the HTTP layer
oauthVars == <<clients, authCodes, accessTokens, uuids, http, issued>>

----------------------------------------------------------------------------
(* Bounds *)

MaxTasks   == 2     \* start calls made in a behaviour
MaxOps     == 2     \* handler invocations in flight at once
MaxCalls   == 3     \* handler invocations made in a behaviour
MaxSeconds == 1     \* the clock runs from 1 to 1 + MaxSeconds * 1000
MaxPromptLen == 102 \* the longest prompt text, in UTF-16 code units
MaxClients == 1     \* clients registered in a behaviour
MaxCodes   == 1     \* authorization codes created in a behaviour
MaxTokens  == 2     \* access tokens created in a behaviour
MaxAuthSteps == 1   \* lifetimes of a code and of a token the clock runs through

TickSteps      == {500}     \* clock advances, in milliseconds
TimeoutChoices == {1}       \* timeoutSeconds arguments of start
WaitChoices    == {FALSE, TRUE}

Slots == 1..MaxOps

\* program constants
MsPerSecond    == 1000     \* timeoutSeconds * 1000, (...) / 1000
PollIntervalMs == 1000     \* setTimeout(resolve, 1000)
SummaryLen     == 100      \* prompt.substring(0, 100), prompt.length > 100
CodeLifetimeMs  == 600000    \* 10 * 60 * 1000
TokenLifetimeMs == 86400000  \* 24 * 60 * 60 * 1000

----------------------------------------------------------------------------
(* Values *)

NoTime == -1                \* endTime === undefined
NoId   == <<"none", 0>>
UnknownId == <<"task-", 0>> \* an id no start ever issued (Date.now() > 0)

Terminal == {"completed", "failed", "stopped"}

GetKinds == {"getStatus", "getOutput"}

\* line 105: the output of a start call that returns at its timeout
TimeoutNote == "Task still running after timeout"

\* function generateTaskId(): `task-${Date.now()}`
generateTaskId(t) == <<"task-", t>>

\* function getTmuxSession(taskId): `claude-${taskId}`
getTmuxSession(taskId) == <<"claude-">> \o taskId

NoRes == [out |-> "", code |-> 0]

Idle == [kind |-> "idle", pc |-> "idle", ph |-> "idle", id |-> NoId, task |-> 0,
         wait |-> FALSE, to |-> 0, t0 |-> 0, wake |-> 0, k |-> 0, rt |-> 0,
         sw |-> FALSE, pre |-> "", chk |-> "",
         cmd |-> "", sess |-> <<>>, res |-> NoRes]

NoRet == [op |-> "none", id |-> NoId, status |-> "", ok |-> FALSE, err |-> "",
          out |-> "", rt |-> 0, sw |-> FALSE, pre |-> "", chk |-> "", code |-> 0,
          list |-> <<>>]

\* the ids start has allocated so far
IssuedIds == {objs[o].taskId : o \in DOMAIN objs}

\* the ids a returned value reports a status other than 'running' for
ReportedEnded(r) ==
    (IF r.status \in Terminal THEN {r.id} ELSE {})
      \cup {r.list[n].taskId : n \in {m \in DOMAIN r.list : r.list[m].status \in Terminal}}

\* a handler hands r to its caller; claude-code.ts has no access to the OAuth
\* stores
Reply(r) ==
    /\ ret' = r
    /\ UNCHANGED oauthVars
    /\ observed' = observed \cup ReportedEnded(r)
    /\ timedOut' = timedOut \cup (IF r.op = "start" /\ r.out = TimeoutNote
                                  THEN {r.id} ELSE {})

\* no handler returns in this step
NoReply ==
    /\ ret' = NoRet
    /\ UNCHANGED oauthVars
    /\ UNCHANGED <<observed, timedOut>>

----------------------------------------------------------------------------
(* The command runner and tmux *)

\* executeCommand(cmd): the shell command runs against the tmux server.
\*   new  : tmux new-session -d -s S ...     exit 0 and S exists, or exit # 0
\*   has  : tmux has-session -t S && echo running || echo done
\*   cap  : tmux capture-pane -t S -p ... || echo "(session ended)"
\*   keys : tmux send-keys -t S ... Enter
\*   kill : tmux kill-session -t S
CmdOutcomes(cmd, s) ==
    CASE cmd = "new" ->
            IF s \in sessions
            THEN {[res |-> [out |-> "", code |-> 1], sessions |-> sessions]}
            ELSE {[res |-> [out |-> "", code |-> 0], sessions |-> sessions \cup {s}],
                  [res |-> [out |-> "", code |-> 1], sessions |-> sessions]}
      [] cmd = "has" ->
            {[res |-> [out |-> IF s \in sessions THEN "running" ELSE "done", code |-> 0],
              sessions |-> sessions]}
      [] cmd = "cap" ->
            IF s \in sessions
            THEN {[res |-> [out |-> o, code |-> 0], sessions |-> sessions] :
                       o \in {"", "pane"}}
            ELSE {[res |-> [out |-> "(session ended)", code |-> 0], sessions |-> sessions]}
      [] cmd = "keys" ->
            IF s \in sessions
            THEN {[res |-> [out |-> "", code |-> c], sessions |-> sessions] : c \in {0, 1}}
            ELSE {[res |-> [out |-> "", code |-> 1], sessions |-> sessions]}
      [] cmd = "kill" ->
            IF s \in sessions
            THEN {[res |-> [out |-> "", code |-> 0], sessions |-> sessions \ {s}],
                  [res |-> [out |-> "", code |-> 1], sessions |-> sessions]}
            ELSE {[res |-> [out |-> "", code |-> 1], sessions |-> sessions]}

\* `await executeCommand(...)`: the handler is suspended with the command pending
Await(op, pc, cmd, s) ==
    [op EXCEPT !.pc = pc, !.ph = "pending", !.cmd = cmd, !.sess = s, !.res = NoRes]

\* the pending command of slot i runs
ExecCmd(i) ==
    /\ ops[i].ph = "pending"
    /\ \E oc \in CmdOutcomes(ops[i].cmd, ops[i].sess) :
          /\ ops' = [ops EXCEPT ![i].ph = "returned", ![i].res = oc.res]
          /\ sessions' = oc.sessions
    /\ NoReply
    /\ UNCHANGED calls
    /\ UNCHANGED <<now, objs, tasks, order>>

\* what executeCommand returns from its catch branch: the shell could not be
\* run or was killed at the timeout; stdout is what had arrived, exitCode
\* `code || 1`. The command is taken not to have acted on tmux.
FailOutcomes(cmd) ==
    {[out |-> o, code |-> 1] : o \in IF cmd = "cap" THEN {"", "pane"} ELSE {""}}

\* the pending command of slot i fails in the command runner
ExecFails(i) ==
    /\ ops[i].ph = "pending"
    /\ \E r \in FailOutcomes(ops[i].cmd) :
          ops' = [ops EXCEPT ![i].ph = "returned", ![i].res = r]
    /\ NoReply
    /\ UNCHANGED calls
    /\ UNCHANGED <<now, objs, tasks, order, sessions>>

\* the program running inside a session exits (or the session is killed from outside)
SessionEnds(s) ==
    /\ s \in sessions
    /\ sessions' = sessions \ {s}
    /\ NoReply
    /\ UNCHANGED calls
    /\ UNCHANGED <<now, objs, tasks, order, ops>>

Tick ==
    /\ \E d \in TickSteps :
          /\ now + d <= 1 + MaxSeconds * MsPerSecond
          /\ now' = now + d
    /\ NoReply
    /\ UNCHANGED calls
    /\ UNCHANGED <<objs, tasks, order, sessions, ops>>

----------------------------------------------------------------------------
(* Registry helpers *)

\* tasks.set(taskId, task)
MapSet(m, key, val) == [x \in (DOMAIN m) \cup {key} |-> IF x = key THEN val ELSE m[x]]

OrderSet(ord, key) == IF \E n \in DOMAIN ord : ord[n] = key THEN ord ELSE Append(ord, key)

\* Finish with a defect: the status is written, the endTime is not
Finish_WithoutEndTime(o, st) == [objs EXCEPT ![o].status = st]

\* task.status = st; task.endTime = Date.now()
Finish(o, st) == [objs EXCEPT ![o].status = st, ![o].endTime = now]

\* a handler returns: its slot is free again
Return(i, r) ==
    /\ ops' = [ops EXCEPT ![i] = Idle]
    /\ Reply(r)

\* FreeSlot with a defect: a start call in its wait loop holds the registry
FreeSlot_Serialized(i) ==
    /\ calls < MaxCalls
    /\ ops[i] = Idle
    /\ \A j \in Slots : j < i => ops[j] # Idle
    /\ \A j \in Slots : ~(ops[j].kind = "start" /\ ops[j].pc \in {"poll", "sleep"})

\* the lowest free slot takes the next handler invocation
FreeSlot(i) == /\ calls < MaxCalls
               /\ ops[i] = Idle
               /\ \A j \in Slots : j < i => ops[j] # Idle

\* task.endTime || Date.now()
EndOrNow(t) == IF t.endTime = NoTime \/ t.endTime = 0 THEN now ELSE t.endTime

\* Math.floor(((task.endTime || Date.now()) - task.startTime) / 1000)
RuntimeSeconds(t) == (EndOrNow(t) - t.startTime) \div MsPerSecond

\* OrNoOutput with a defect: the empty output is returned as it is
OrNoOutput_Raw(out) == out

\* captureResult.stdout || '(no output)'
OrNoOutput(out) == IF out = "" THEN "(no output)" ELSE out

----------------------------------------------------------------------------
(* startClaudeCodeTask(prompt, workingDirectory, waitForCompletion, timeoutSeconds) *)

NewTask(id, p) == [taskId |-> id, prompt |-> p, status |-> "running",
                   startTime |-> now, endTime |-> NoTime,
                   tmuxSession |-> getTmuxSession(id)]

\* A prompt is the sequence of its UTF-16 code units, which is what length and
\* substring count. Text(L, m) has L units, all "a" but an "x" at place m.
Text(L, m) == [n \in 1..L |-> IF n = m THEN "x" ELSE "a"]

\* '...'
Ellipsis == <<".", ".", ".">>

\* the lengths around the cut; the tool handler rejects an empty prompt
PromptLens == {1} \cup ((SummaryLen - 2)..MaxPromptLen)

\* the prompt arguments of start
Prompts == {Text(L, m) : L \in PromptLens, m \in 0..MaxPromptLen}

\* the prompt of the start calls where the text plays no part
DefaultPrompt == Text(1, 0)

\* s.substring(0, n) for 0 <= n
Substring0(s, n) == SubSeq(s, 1, IF Len(s) < n THEN Len(s) ELSE n)

\* PromptSummary with a defect: a prompt of exactly 100 units gets the ellipsis
PromptSummary_OffByOne(p) ==
    Substring0(p, SummaryLen) \o (IF Len(p) >= SummaryLen THEN Ellipsis ELSE <<>>)

\* line 236: prompt.substring(0, 100) + (prompt.length > 100 ? '...' : '')
PromptSummary(p) ==
    Substring0(p, SummaryLen) \o (IF Len(p) > SummaryLen THEN Ellipsis ELSE <<>>)

\* lines 36-65: allocate the id, register the record with the prompt p, issue
\* tmux new-session
StartPrompt(i, w, to, p) ==
    /\ FreeSlot(i)
    /\ Len(objs) < MaxTasks
    /\ LET id == generateTaskId(now)
           o  == Len(objs) + 1
       IN /\ objs' = Append(objs, NewTask(id, p))
          /\ tasks' = MapSet(tasks, id, o)
          /\ order' = OrderSet(order, id)
          /\ ops' = [ops EXCEPT ![i] =
                        Await([Idle EXCEPT !.kind = "start", !.id = id, !.task = o,
                                           !.wait = w, !.to = to],
                              "create", "new", getTmuxSession(id))]
    /\ NoReply
    /\ calls' = calls + 1
    /\ UNCHANGED <<now, sessions>>

\* lines 42-65: a start call; the prompt text plays no part in what follows
StartCall(i, w, to) == StartPrompt(i, w, to, DefaultPrompt)

\* StartLoop with a defect: the loop test ignores the timeout
StartLoop_NoTimeout(i, op) ==
    /\ ops' = [ops EXCEPT ![i] = Await(op, "poll", "has", objs[op.task].tmuxSession)]
    /\ NoReply

\* lines 86-105: the loop test, then the next has-session poll or the timeout return
StartLoop(i, op) ==
    IF now - op.t0 < op.to * MsPerSecond
    THEN /\ ops' = [ops EXCEPT ![i] = Await(op, "poll", "has", objs[op.task].tmuxSession)]
         /\ NoReply
    ELSE Return(i, [NoRet EXCEPT !.op = "start", !.id = op.id, !.status = "running",
                                 !.out = TimeoutNote,
                                 !.sw = op.sw])

\* lines 67-84: new-session has returned
StartCreated(i) ==
    /\ ops[i].kind = "start" /\ ops[i].pc = "create" /\ ops[i].ph = "returned"
    /\ IF ops[i].res.code # 0
       THEN /\ objs' = Finish(ops[i].task, "failed")
            /\ Return(i, [NoRet EXCEPT !.op = "start", !.id = ops[i].id,
                                       !.status = "failed",
                                       !.out = "Failed to start tmux session"])
       ELSE IF ~ops[i].wait
       THEN /\ Return(i, [NoRet EXCEPT !.op = "start", !.id = ops[i].id,
                                       !.status = "running"])
            /\ UNCHANGED objs
       ELSE /\ StartLoop(i, [ops[i] EXCEPT !.t0 = now])
            /\ UNCHANGED objs
    /\ UNCHANGED calls
    /\ UNCHANGED <<now, tasks, order, sessions>>

\* lines 88-101: has-session has returned inside the wait loop
StartPolled(i) ==
    /\ ops[i].kind = "start" /\ ops[i].pc = "poll" /\ ops[i].ph = "returned"
    /\ IF ops[i].res.out = "done"
       THEN /\ objs' = Finish(ops[i].task, "completed")
            \* line 95: getClaudeCodeOutput(taskId) looks the id up again (lines 150-156)
            /\ IF ops[i].id \in DOMAIN tasks
               THEN /\ ops' = [ops EXCEPT ![i] =
                                  Await([ops[i] EXCEPT !.k = tasks[ops[i].id]], "out_check",
                                        "has", objs[tasks[ops[i].id]].tmuxSession)]
                    /\ NoReply
               ELSE Return(i, [NoRet EXCEPT !.op = "start", !.id = ops[i].id,
                                            !.status = "completed", !.out = "(no output)",
                                            !.sw = ops[i].sw])
       ELSE \* line 101: setTimeout(resolve, 1000)
            /\ ops' = [ops EXCEPT ![i].pc = "sleep", ![i].ph = "timer",
                                  ![i].wake = now + PollIntervalMs]
            /\ NoReply
            /\ UNCHANGED objs
    /\ UNCHANGED calls
    /\ UNCHANGED <<now, tasks, order, sessions>>

\* the timer of line 101 fires
StartWake(i) ==
    /\ ops[i].kind = "start" /\ ops[i].pc = "sleep"
    /\ now >= ops[i].wake
    /\ StartLoop(i, ops[i])
    /\ UNCHANGED calls
    /\ UNCHANGED <<now, objs, tasks, order, sessions>>

\* line 95, inside getClaudeCodeOutput (lines 158-166): reconcile, issue capture-pane
StartOutChecked(i) ==
    /\ ops[i].kind = "start" /\ ops[i].pc = "out_check" /\ ops[i].ph = "returned"
    /\ objs' = IF objs[ops[i].k].status = "running" /\ ops[i].res.out = "done"
               THEN Finish(ops[i].k, "completed")
               ELSE objs
    /\ ops' = [ops EXCEPT ![i] = Await(ops[i], "out_cap", "cap", objs[ops[i].k].tmuxSession)]
    /\ NoReply
    /\ UNCHANGED calls
    /\ UNCHANGED <<now, tasks, order, sessions>>

\* StartOutCaptured with a defect: the captured output is dropped
StartOutCaptured_NoOutput(i) ==
    /\ ops[i].kind = "start" /\ ops[i].pc = "out_cap" /\ ops[i].ph = "returned"
    /\ Return(i, [NoRet EXCEPT !.op = "start", !.id = ops[i].id, !.status = "completed",
                               !.out = "(no output)", !.sw = ops[i].sw])
    /\ UNCHANGED calls
    /\ UNCHANGED <<now, objs, tasks, order, sessions>>

\* lines 96-97: the output is in, start returns 'completed'
StartOutCaptured(i) ==
    /\ ops[i].kind = "start" /\ ops[i].pc = "out_cap" /\ ops[i].ph = "returned"
    /\ Return(i, [NoRet EXCEPT !.op = "start", !.id = ops[i].id, !.status = "completed",
                               !.out = OrNoOutput(ops[i].res.out), !.sw = ops[i].sw])
    /\ UNCHANGED calls
    /\ UNCHANGED <<now, objs, tasks, order, sessions>>

----------------------------------------------------------------------------
(* getClaudeCodeStatus(taskId) and getClaudeCodeOutput(taskId, lines) *)

\* lines 114-120 and 150-156: look the task up, issue has-session
GetCall(i, kind, id) ==
    /\ FreeSlot(i)
    /\ IF id \notin DOMAIN tasks
       THEN /\ Reply([NoRet EXCEPT !.op = kind, !.id = id, !.err = "Task not found"])
            /\ UNCHANGED ops
       ELSE /\ ops' = [ops EXCEPT ![i] =
                          Await([Idle EXCEPT !.kind = kind, !.id = id, !.task = tasks[id],
                                             \* history: the status the call found
                                             !.pre = objs[tasks[id]].status],
                                "check", "has", objs[tasks[id]].tmuxSession)]
            /\ NoReply
    /\ calls' = calls + 1
    /\ UNCHANGED <<now, objs, tasks, order, sessions>>

\* Reconcile with a defect: the test of task.status is missing
Reconcile_Unguarded(o, out) == IF out = "done" THEN Finish(o, "completed") ELSE objs

\* Reconcile with a defect: only the write of the status is guarded
Reconcile_Restamping(o, out) ==
    IF out = "done"
    THEN [objs EXCEPT ![o].status = IF @ = "running" THEN "completed" ELSE @,
                      ![o].endTime = now]
    ELSE objs

\* Reconcile with a defect: the record is never updated
Reconcile_Never(o, out) == objs

\* lines 122-125 and 158-161: mark the task completed when the session is gone
Reconcile(o, out) ==
    IF objs[o].status = "running" /\ out = "done" THEN Finish(o, "completed") ELSE objs

\* lines 122-134 and 158-166: reconcile, compute runtimeSeconds, issue capture-pane
GetChecked(i) ==
    /\ ops[i].kind \in {"getStatus", "getOutput"}
    /\ ops[i].pc = "check" /\ ops[i].ph = "returned"
    /\ objs' = Reconcile(ops[i].task, ops[i].res.out)
    /\ ops' = [ops EXCEPT ![i] =
                  Await([ops[i] EXCEPT !.rt = IF ops[i].kind = "getStatus"
                                              THEN RuntimeSeconds(objs'[ops[i].task])
                                              ELSE 0,
                                       \* checkResult stays in scope until the return
                                       !.chk = ops[i].res.out],
                        "cap", "cap", objs[ops[i].task].tmuxSession)]
    /\ NoReply
    /\ UNCHANGED calls
    /\ UNCHANGED <<now, tasks, order, sessions>>

\* GetCaptured with a defect: the status returned is the one read before the awaits
GetCaptured_StaleStatus(i) ==
    /\ ops[i].kind \in {"getStatus", "getOutput"}
    /\ ops[i].pc = "cap" /\ ops[i].ph = "returned"
    /\ Return(i, [NoRet EXCEPT !.op = ops[i].kind, !.id = ops[i].id,
                               !.status = ops[i].pre,
                               !.rt = ops[i].rt,
                               !.pre = ops[i].pre, !.chk = ops[i].chk,
                               !.code = ops[i].res.code,
                               !.out = OrNoOutput(ops[i].res.out)])
    /\ UNCHANGED calls
    /\ UNCHANGED <<now, objs, tasks, order, sessions>>

\* lines 136-140 and 168-171
GetCaptured(i) ==
    /\ ops[i].kind \in {"getStatus", "getOutput"}
    /\ ops[i].pc = "cap" /\ ops[i].ph = "returned"
    /\ Return(i, [NoRet EXCEPT !.op = ops[i].kind, !.id = ops[i].id,
                               !.status = objs[ops[i].task].status,
                               !.rt = ops[i].rt,
                               !.pre = ops[i].pre, !.chk = ops[i].chk,
                               \* history: captureResult.exitCode
                               !.code = ops[i].res.code,
                               !.out = OrNoOutput(ops[i].res.out)])
    /\ UNCHANGED calls
    /\ UNCHANGED <<now, objs, tasks, order, sessions>>

----------------------------------------------------------------------------
(* sendToClaudeCode(taskId, message) *)

\* SendCall with a defect: the status of the task is not tested
SendCall_Unchecked(i, id) ==
    /\ FreeSlot(i)
    /\ IF id \notin DOMAIN tasks
       THEN /\ Reply([NoRet EXCEPT !.op = "send", !.id = id, !.err = "Task not found"])
            /\ UNCHANGED ops
       ELSE /\ ops' = [ops EXCEPT ![i] =
                          Await([Idle EXCEPT !.kind = "send", !.id = id, !.task = tasks[id]],
                                "check", "has", objs[tasks[id]].tmuxSession)]
            /\ NoReply
    /\ calls' = calls + 1
    /\ UNCHANGED <<now, objs, tasks, order, sessions>>

\* lines 181-191
SendCall(i, id) ==
    /\ FreeSlot(i)
    /\ IF id \notin DOMAIN tasks
       THEN /\ Reply([NoRet EXCEPT !.op = "send", !.id = id, !.err = "Task not found"])
            /\ UNCHANGED ops
       ELSE IF objs[tasks[id]].status # "running"
       THEN /\ Reply([NoRet EXCEPT !.op = "send", !.id = id,
                                    !.status = objs[tasks[id]].status,
                                    !.err = "Task is not running"])
            /\ UNCHANGED ops
       ELSE /\ ops' = [ops EXCEPT ![i] =
                          Await([Idle EXCEPT !.kind = "send", !.id = id, !.task = tasks[id]],
                                "check", "has", objs[tasks[id]].tmuxSession)]
            /\ NoReply
    /\ calls' = calls + 1
    /\ UNCHANGED <<now, objs, tasks, order, sessions>>

\* SendChecked with a defect: the keys are sent whatever has-session answered
SendChecked_SendsAnyway(i) ==
    /\ ops[i].kind = "send" /\ ops[i].pc = "check" /\ ops[i].ph = "returned"
    /\ ops' = [ops EXCEPT ![i] =
                  Await(ops[i], "keys", "keys", objs[ops[i].task].tmuxSession)]
    /\ NoReply
    /\ UNCHANGED <<now, objs, tasks, order, sessions, calls>>

\* lines 193-202
SendChecked(i) ==
    /\ ops[i].kind = "send" /\ ops[i].pc = "check" /\ ops[i].ph = "returned"
    /\ IF ops[i].res.out = "done"
       THEN /\ objs' = Finish(ops[i].task, "completed")
            /\ Return(i, [NoRet EXCEPT !.op = "send", !.id = ops[i].id,
                                       !.err = "Task has already completed"])
       ELSE /\ ops' = [ops EXCEPT ![i] =
                          Await(ops[i], "keys", "keys", objs[ops[i].task].tmuxSession)]
            /\ NoReply
            /\ UNCHANGED objs
    /\ UNCHANGED calls
    /\ UNCHANGED <<now, tasks, order, sessions>>

\* SendKeysDone with a defect: the exit code of send-keys is not looked at
SendKeysDone_AlwaysSent(i) ==
    /\ ops[i].kind = "send" /\ ops[i].pc = "keys" /\ ops[i].ph = "returned"
    /\ Return(i, [NoRet EXCEPT !.op = "send", !.id = ops[i].id, !.ok = TRUE])
    /\ UNCHANGED calls
    /\ UNCHANGED <<now, objs, tasks, order, sessions>>

\* lines 204-208
SendKeysDone(i) ==
    /\ ops[i].kind = "send" /\ ops[i].pc = "keys" /\ ops[i].ph = "returned"
    /\ Return(i, IF ops[i].res.code # 0
                 THEN [NoRet EXCEPT !.op = "send", !.id = ops[i].id, !.err = "Failed to send"]
                 ELSE [NoRet EXCEPT !.op = "send", !.id = ops[i].id, !.ok = TRUE])
    /\ UNCHANGED calls
    /\ UNCHANGED <<now, objs, tasks, order, sessions>>

----------------------------------------------------------------------------
(* stopClaudeCodeTask(taskId) *)

\* StopCall with a defect: the lookup is not tested, `task.status` of
\* undefined throws a TypeError
StopCall_NoLookupTest(i, id) ==
    /\ FreeSlot(i)
    /\ IF id \notin DOMAIN tasks
       THEN /\ Reply([NoRet EXCEPT !.op = "stop", !.id = id, !.err = "TypeError"])
            /\ UNCHANGED ops
       ELSE IF objs[tasks[id]].status # "running"
       THEN /\ Reply([NoRet EXCEPT !.op = "stop", !.id = id,
                                    !.status = objs[tasks[id]].status,
                                    !.err = "Task is not running"])
            /\ UNCHANGED ops
       ELSE /\ ops' = [ops EXCEPT ![i] =
                          Await([Idle EXCEPT !.kind = "stop", !.id = id, !.task = tasks[id]],
                                "kill", "kill", objs[tasks[id]].tmuxSession)]
            /\ NoReply
    /\ calls' = calls + 1
    /\ UNCHANGED <<now, objs, tasks, order, sessions>>

\* StopCall with a defect: the status of the task is not tested
StopCall_Unchecked(i, id) ==
    /\ FreeSlot(i)
    /\ IF id \notin DOMAIN tasks
       THEN /\ Reply([NoRet EXCEPT !.op = "stop", !.id = id, !.err = "Task not found"])
            /\ UNCHANGED ops
       ELSE /\ ops' = [ops EXCEPT ![i] =
                          Await([Idle EXCEPT !.kind = "stop", !.id = id, !.task = tasks[id]],
                                "kill", "kill", objs[tasks[id]].tmuxSession)]
            /\ NoReply
    /\ calls' = calls + 1
    /\ UNCHANGED <<now, objs, tasks, order, sessions>>

\* lines 251-261
StopCall(i, id) ==
    /\ FreeSlot(i)
    /\ IF id \notin DOMAIN tasks
       THEN /\ Reply([NoRet EXCEPT !.op = "stop", !.id = id, !.err = "Task not found"])
            /\ UNCHANGED ops
       ELSE IF objs[tasks[id]].status # "running"
       THEN /\ Reply([NoRet EXCEPT !.op = "stop", !.id = id,
                                    !.status = objs[tasks[id]].status,
                                    !.err = "Task is not running"])
            /\ UNCHANGED ops
       ELSE /\ ops' = [ops EXCEPT ![i] =
                          Await([Idle EXCEPT !.kind = "stop", !.id = id, !.task = tasks[id]],
                                "kill", "kill", objs[tasks[id]].tmuxSession)]
            /\ NoReply
    /\ calls' = calls + 1
    /\ UNCHANGED <<now, objs, tasks, order, sessions>>

\* a start call is in its wait loop (lines 86-102) for task object o
InWaitLoop(op, o) == op.kind = "start" /\ op.task = o /\ op.pc \in {"poll", "sleep"}

\* StopKilled with a defect: the task is marked only when kill-session succeeded
StopKilled_OnlyOnSuccess(i) ==
    /\ ops[i].kind = "stop" /\ ops[i].pc = "kill" /\ ops[i].ph = "returned"
    /\ objs' = IF ops[i].res.code = 0 THEN Finish(ops[i].task, "stopped") ELSE objs
    /\ ops' = [ops EXCEPT ![i] = Idle]
    /\ Reply([NoRet EXCEPT !.op = "stop", !.id = ops[i].id, !.ok = (ops[i].res.code = 0),
                           !.err = IF ops[i].res.code = 0 THEN "" ELSE "Failed to stop"])
    /\ UNCHANGED <<now, tasks, order, sessions, calls>>

\* StopKilled with a defect: stop also deletes the task from the Map
StopKilled_Deleting(i) ==
    /\ ops[i].kind = "stop" /\ ops[i].pc = "kill" /\ ops[i].ph = "returned"
    /\ objs' = Finish(ops[i].task, "stopped")
    /\ ops' = [ops EXCEPT ![i] = Idle]
    /\ Reply([NoRet EXCEPT !.op = "stop", !.id = ops[i].id, !.ok = TRUE])
    /\ tasks' = [x \in (DOMAIN tasks) \ {ops[i].id} |-> tasks[x]]
    /\ order' = SelectSeq(order, LAMBDA x : x # ops[i].id)
    /\ UNCHANGED <<now, sessions, calls>>

\* lines 263-266: kill-session has returned, whatever its exit code
StopKilled(i) ==
    /\ ops[i].kind = "stop" /\ ops[i].pc = "kill" /\ ops[i].ph = "returned"
    /\ objs' = Finish(ops[i].task, "stopped")
    /\ ops' = [j \in Slots |->
                 IF j = i THEN Idle
                 ELSE IF InWaitLoop(ops[j], ops[i].task)
                 THEN [ops[j] EXCEPT !.sw = TRUE]   \* history: stopped while waiting
                 ELSE ops[j]]
    /\ Reply([NoRet EXCEPT !.op = "stop", !.id = ops[i].id, !.ok = TRUE])
    /\ UNCHANGED calls
    /\ UNCHANGED <<now, tasks, order, sessions>>

----------------------------------------------------------------------------
(* listClaudeCodeSessions() *)

\* lines 234-240: one entry per value of the Map, in insertion order
Snapshot(O) ==
    [n \in 1..Len(order) |->
        [taskId |-> O[tasks[order[n]]].taskId,
         prompt |-> PromptSummary(O[tasks[order[n]]].prompt),
         status |-> O[tasks[order[n]]].status,
         runtimeSeconds |-> RuntimeSeconds(O[tasks[order[n]]])]]

\* lines 224-242: the for-of loop over tasks.values() from position k on, with
\* the records as in O: suspend at the next running task, or build the result
ListFrom(i, op, k, O) ==
    LET cand == {n \in k..Len(order) : O[tasks[order[n]]].status = "running"}
    IN IF cand # {}
       THEN LET n == CHOOSE m \in cand : \A m2 \in cand : m <= m2
            IN /\ ops' = [ops EXCEPT ![i] =
                             Await([op EXCEPT !.k = n, !.task = tasks[order[n]]],
                                   "check", "has", O[tasks[order[n]]].tmuxSession)]
               /\ NoReply
       ELSE Return(i, [NoRet EXCEPT !.op = "list", !.list = Snapshot(O)])

ListCall(i) ==
    /\ FreeSlot(i)
    /\ ListFrom(i, [Idle EXCEPT !.kind = "list"], 1, objs)
    /\ calls' = calls + 1
    /\ UNCHANGED <<now, objs, tasks, order, sessions>>

\* ListChecked with a defect: list reports without updating the records
ListChecked_NoWrite(i) ==
    /\ ops[i].kind = "list" /\ ops[i].pc = "check" /\ ops[i].ph = "returned"
    /\ ListFrom(i, ops[i], ops[i].k + 1, objs)
    /\ UNCHANGED <<now, objs, tasks, order, sessions, calls>>

\* lines 227-230: has-session has returned for the task at position k
ListChecked(i) ==
    /\ ops[i].kind = "list" /\ ops[i].pc = "check" /\ ops[i].ph = "returned"
    /\ objs' = IF ops[i].res.out = "done" THEN Finish(ops[i].task, "completed") ELSE objs
    /\ ListFrom(i, ops[i], ops[i].k + 1, objs')
    /\ UNCHANGED calls
    /\ UNCHANGED <<now, tasks, order, sessions>>

----------------------------------------------------------------------------
(* The task registry under concurrent requests *)

\* the taskId arguments callers pass: every id start has issued and one unknown id
CallIds == IssuedIds \cup {UnknownId}

\* no uuid: an absent parameter
NoUuid == -1

\* no Authorization header
NoHeader == [scheme |-> "", cred |-> NoUuid]

\* no HTTP request received yet
NoHttp == [route |-> "", status |-> 0, hdr |-> NoHeader, body |-> "", seq |-> -1,
           pin |-> "", code |-> NoUuid, out |-> NoUuid, why |-> ""]

Init ==
    /\ now = 1
    /\ objs = <<>>
    /\ tasks = <<>>
    /\ order = <<>>
    /\ sessions = {}
    /\ ops = [i \in Slots |-> Idle]
    /\ calls = 0
    /\ observed = {}
    /\ timedOut = {}
    /\ ret = NoRet
    /\ clients = <<>>
    /\ authCodes = <<>>
    /\ accessTokens = <<>>
    /\ uuids = 0
    /\ http = NoHttp
    /\ issued = {}

Next ==
    \/ Tick
    \/ \E s \in sessions : SessionEnds(s)
    \/ \E i \in Slots : ExecCmd(i)
    \/ \E i \in Slots, w \in WaitChoices, to \in TimeoutChoices : StartCall(i, w, to)
    \/ \E i \in Slots : StartCreated(i)
    \/ \E i \in Slots : StartPolled(i)
    \/ \E i \in Slots : StartWake(i)
    \/ \E i \in Slots : StartOutChecked(i)
    \/ \E i \in Slots : StartOutCaptured(i)
    \/ \E i \in Slots, id \in CallIds : GetCall(i, "getStatus", id)
    \/ \E i \in Slots, id \in CallIds : GetCall(i, "getOutput", id)
    \/ \E i \in Slots : GetChecked(i)
    \/ \E i \in Slots : GetCaptured(i)
    \/ \E i \in Slots, id \in CallIds : SendCall(i, id)
    \/ \E i \in Slots : SendChecked(i)
    \/ \E i \in Slots : SendKeysDone(i)
    \/ \E i \in Slots : ListCall(i)
    \/ \E i \in Slots : ListChecked(i)
    \/ \E i \in Slots, id \in CallIds : StopCall(i, id)
    \/ \E i \in Slots : StopKilled(i)

Spec == Init /\ [][Next]_vars

----------------------------------------------------------------------------
(* The task registry under a caller that awaits each response *)

\* no handler invocation is in flight
Quiet == \A j \in Slots : ops[j] = Idle

\* no handler invocation that writes the registry is in flight
OnlyGets == \A j \in Slots : ops[j] = Idle \/ ops[j].kind \in GetKinds

\* Requests arrive one at a time, each after the response to the one before;
\* only getStatus and getOutput requests overlap one another.
SeqNext ==
    \/ Tick
    \/ \E s \in sessions : SessionEnds(s)
    \/ \E i \in Slots : ExecCmd(i)
    \/ Quiet /\ \E i \in Slots, w \in WaitChoices, to \in TimeoutChoices : StartCall(i, w, to)
    \/ \E i \in Slots : StartCreated(i)
    \/ \E i \in Slots : StartPolled(i)
    \/ \E i \in Slots : StartWake(i)
    \/ \E i \in Slots : StartOutChecked(i)
    \/ \E i \in Slots : StartOutCaptured(i)
    \/ OnlyGets /\ \E i \in Slots, id \in CallIds : GetCall(i, "getStatus", id)
    \/ OnlyGets /\ \E i \in Slots, id \in CallIds : GetCall(i, "getOutput", id)
    \/ \E i \in Slots : GetChecked(i)
    \/ \E i \in Slots : GetCaptured(i)
    \/ Quiet /\ \E i \in Slots, id \in CallIds : SendCall(i, id)
    \/ \E i \in Slots : SendChecked(i)
    \/ \E i \in Slots : SendKeysDone(i)
    \/ Quiet /\ \E i \in Slots : ListCall(i)
    \/ \E i \in Slots : ListChecked(i)
    \/ Quiet /\ \E i \in Slots, id \in CallIds : StopCall(i, id)
    \/ \E i \in Slots : StopKilled(i)

SeqSpec == Init /\ [][SeqNext]_vars

----------------------------------------------------------------------------
(* The task registry over a command runner that can fail *)

FaultNext ==
    \/ \E i \in Slots : ExecFails(i)
    \/ Tick
    \/ \E s \in sessions : SessionEnds(s)
    \/ \E i \in Slots : ExecCmd(i)
    \/ \E i \in Slots, w \in WaitChoices, to \in TimeoutChoices : StartCall(i, w, to)
    \/ \E i \in Slots : StartCreated(i)
    \/ \E i \in Slots : StartPolled(i)
    \/ \E i \in Slots : StartWake(i)
    \/ \E i \in Slots : StartOutChecked(i)
    \/ \E i \in Slots : StartOutCaptured(i)
    \/ \E i \in Slots, id \in CallIds : GetCall(i, "getStatus", id)
    \/ \E i \in Slots, id \in CallIds : GetCall(i, "getOutput", id)
    \/ \E i \in Slots : GetChecked(i)
    \/ \E i \in Slots : GetCaptured(i)
    \/ \E i \in Slots, id \in CallIds : SendCall(i, id)
    \/ \E i \in Slots : SendChecked(i)
    \/ \E i \in Slots : SendKeysDone(i)
    \/ \E i \in Slots : ListCall(i)
    \/ \E i \in Slots : ListChecked(i)
    \/ \E i \in Slots, id \in CallIds : StopCall(i, id)
    \/ \E i \in Slots : StopKilled(i)

FaultSpec == Init /\ [][FaultNext]_vars

----------------------------------------------------------------------------
(* The task registry with a clock that advances and commands that return *)

\* the last value of the clock
Horizon == 1 + MaxSeconds * MsPerSecond

\* a command is outstanding: issued and not yet handed back to its handler
Outstanding == \E j \in Slots : ops[j].ph \in {"pending", "returned"}

\* the commands are short against the step of the clock
LiveTick == ~Outstanding /\ Tick

\* the start calls whose whole wait the clock of the model covers
LiveStartCall(i, w, to) ==
    /\ w => now + to * MsPerSecond <= Horizon
    /\ StartCall(i, w, to)

\* the steps of the invocation in slot i that no caller has to make
Resume(i) ==
    \/ ExecCmd(i)
    \/ StartCreated(i) \/ StartPolled(i) \/ StartWake(i)
    \/ StartOutChecked(i) \/ StartOutCaptured(i)
    \/ GetChecked(i) \/ GetCaptured(i)
    \/ SendChecked(i) \/ SendKeysDone(i)
    \/ ListChecked(i)
    \/ StopKilled(i)

LiveNext ==
    \/ LiveTick
    \/ \E s \in sessions : SessionEnds(s)
    \/ \E i \in Slots : ExecCmd(i)
    \/ \E i \in Slots, w \in WaitChoices, to \in TimeoutChoices : LiveStartCall(i, w, to)
    \/ \E i \in Slots : StartCreated(i)
    \/ \E i \in Slots : StartPolled(i)
    \/ \E i \in Slots : StartWake(i)
    \/ \E i \in Slots : StartOutChecked(i)
    \/ \E i \in Slots : StartOutCaptured(i)
    \/ \E i \in Slots, id \in CallIds : GetCall(i, "getStatus", id)
    \/ \E i \in Slots, id \in CallIds : GetCall(i, "getOutput", id)
    \/ \E i \in Slots : GetChecked(i)
    \/ \E i \in Slots : GetCaptured(i)
    \/ \E i \in Slots, id \in CallIds : SendCall(i, id)
    \/ \E i \in Slots : SendChecked(i)
    \/ \E i \in Slots : SendKeysDone(i)
    \/ \E i \in Slots : ListCall(i)
    \/ \E i \in Slots : ListChecked(i)
    \/ \E i \in Slots, id \in CallIds : StopCall(i, id)
    \/ \E i \in Slots : StopKilled(i)

\* The event loop runs every handler that can resume, every command returns
\* (execute.ts: timeout 60000) and the clock advances; nothing is assumed of
\* the sessions and of the callers.
LiveSpec ==
    /\ Init /\ [][LiveNext]_vars
    /\ WF_vars(LiveTick)
    /\ \A i \in Slots : WF_vars(Resume(i))

----------------------------------------------------------------------------
(* Properties of the task registry *)

\* slot i takes a step of a getStatus or getOutput invocation
GetStep(i) == /\ ops'[i] # ops[i]
              /\ ops[i].kind \in GetKinds \/ ops'[i].kind \in GetKinds

\* C1: in every reachable state every task record has endTime set if and only
\* if its status is not 'running'.
C1_EndTimeIffNotRunning ==
    \A o \in DOMAIN objs : (objs[o].endTime # NoTime) <=> (objs[o].status # "running")

C1_Witness ==
    /\ \E o \in DOMAIN objs : objs[o].status = "stopped" /\ objs[o].endTime # NoTime
    /\ \E o \in DOMAIN objs : objs[o].status = "running" /\ objs[o].endTime = NoTime

\* C2: terminal states are absorbing: once a record's status is 'completed',
\* 'failed' or 'stopped', no step of any operation changes it.
C2_TerminalAbsorbing ==
    [][\A o \in DOMAIN objs :
          objs[o].status \in Terminal => objs'[o].status = objs[o].status]_vars

\* C3: endTime is assigned exactly once: once a record's endTime has a value,
\* no later step assigns it again.
C3_EndTimeAssignedOnce ==
    [][\A o \in DOMAIN objs :
          objs[o].endTime # NoTime => objs'[o].endTime = objs[o].endTime]_vars

\* C4: every start allocates an id different from every id issued before, and
\* no start replaces the registry record of an earlier task: exactly one record
\* exists per issued id.
C4_FreshIds ==
    /\ \A a, b \in DOMAIN objs : a # b => objs[a].taskId # objs[b].taskId
    /\ \A o \in DOMAIN objs : tasks[objs[o].taskId] = o

\* C5: once an operation has reported a status other than 'running' for an id,
\* no later getStatus, getOutput or list reports 'running' for that id.
C5_NeverBackToRunning ==
    /\ (ret.op \in GetKinds /\ ret.status = "running") => ret.id \notin observed
    /\ \A n \in DOMAIN ret.list :
          ret.list[n].status = "running" => ret.list[n].taskId \notin observed

\* C6: no operation removes a task: 'Task not found' is never reported for an
\* id that start has issued.
C6_IssuedIdsAreFound ==
    ret.err = "Task not found" => ret.id \notin IssuedIds

C6_Witness ==
    /\ ret.op \in {"getStatus", "getOutput", "send", "stop"}
    /\ ret.id \in IssuedIds
    /\ ret.err # "Task not found"
    /\ Len(objs) = 2 /\ objs[1].taskId # objs[2].taskId /\ ret.id = objs[1].taskId

\* C7: a task is 'running' only once its create-session call has returned
\* success: no other operation reconciles a 'running' task against the session
\* (holds a has-session result for it) while the start call that created the
\* task is still waiting for new-session to return.
C7_RunningOnlyAfterCreate ==
    \A i, j \in Slots :
        ~ /\ ops[j].kind = "start" /\ ops[j].pc = "create"
          /\ ops[i].kind \in {"getStatus", "getOutput", "send", "list"}
          /\ ops[i].task = ops[j].task
          /\ ops[i].cmd = "has" /\ ops[i].ph = "returned"
          /\ objs[ops[i].task].status = "running"

\* C8: when stop has marked a task 'stopped' while a start call was in its wait
\* loop for that task, the start call, returning after its next poll (not at
\* the timeout), returns status 'stopped' and the registry status stays
\* 'stopped'.
C8_StopDuringWait ==
    (ret.op = "start" /\ ret.sw /\ ret.out # TimeoutNote) =>
        /\ ret.status = "stopped"
        /\ objs[tasks[ret.id]].status = "stopped"

\* C9: when new-session fails, start returns at once (no liveness poll) with
\* status 'failed' and the diagnostic, and the task registered under the
\* returned id has status 'failed' and endTime set.
C9_CreationFailure ==
    [][\A i \in Slots :
          (/\ ops[i].kind = "start" /\ ops[i].pc = "create" /\ ops[i].ph = "returned"
           /\ ops[i].res.code # 0
           /\ ops'[i] # ops[i])
          => /\ ops'[i] = Idle
             /\ ret'.op = "start" /\ ret'.id = ops[i].id
             /\ ret'.status = "failed"
             /\ ret'.out = "Failed to start tmux session"
             /\ objs'[tasks'[ops[i].id]].status = "failed"
             /\ objs'[tasks'[ops[i].id]].endTime # NoTime]_vars

\* C10: a record with status 'failed' (its session creation failed) is left
\* as it is, status and endTime, by every step of getStatus and getOutput, and
\* these report 'failed' for it.
C10_FailedStaysFailed ==
    [][\A i \in Slots :
          GetStep(i) =>
             /\ \A o \in DOMAIN objs : objs[o].status = "failed" => objs'[o] = objs[o]
             /\ (ops[i].pc = "cap" /\ ops'[i] = Idle
                   /\ objs[ops[i].task].status = "failed") => ret'.status = "failed"]_vars

C10_Witness ==
    /\ ret.op \in GetKinds /\ ret.status = "failed"
    /\ ret.id \in DOMAIN tasks /\ objs[tasks[ret.id]].status = "failed"
    /\ getTmuxSession(ret.id) \notin sessions

C12_SessionGoneDuringWait ==
    [][\A i \in Slots :
          /\ (/\ ops[i].kind = "start" /\ ops[i].pc = "poll" /\ ops[i].ph = "returned"
              /\ ops[i].res.out = "done" /\ ops'[i].pc # ops[i].pc) =>
                 /\ objs'[ops[i].task].status = "completed"
                 /\ objs'[ops[i].task].endTime = now
                 /\ ops'[i].pc = "out_check"
                 /\ ops'[i].sess = getTmuxSession(ops[i].id)
          /\ (/\ ops[i].kind = "start" /\ ops[i].pc = "out_check"
              /\ ops[i].ph = "returned" /\ ops'[i].pc # ops[i].pc) =>
                 /\ ops'[i].pc = "out_cap" /\ ops'[i].cmd = "cap"
                 /\ ops'[i].sess = getTmuxSession(ops[i].id)
          /\ (/\ ops[i].kind = "start" /\ ops[i].pc = "out_cap"
              /\ ops[i].ph = "returned" /\ ops'[i].pc # ops[i].pc) =>
                 /\ ops'[i] = Idle
                 /\ ret'.op = "start" /\ ret'.id = ops[i].id
                 /\ ret'.status = "completed"
                 /\ ret'.out = OrNoOutput(ops[i].res.out)]_vars

C12_Witness ==
    /\ ret.op = "start" /\ ret.status = "completed" /\ ret.out = "(session ended)"
    /\ objs[tasks[ret.id]].status = "completed"
    /\ objs[tasks[ret.id]].endTime # NoTime

\* C13: every start call with waitForCompletion returns: it leaves the wait
\* loop at the first loop test at which timeoutSeconds have elapsed since the
\* wait began, and it issues a poll only while they have not, whether or not
\* the session ever ends.
C13_WaitReturns ==
    /\ \A i \in Slots : (ops[i].kind = "start" /\ ops[i].wait) ~> (ops[i] = Idle)
    /\ [][\A i \in Slots :
             /\ (/\ ops[i].kind = "start" /\ ops[i].pc = "sleep" /\ ops'[i].pc # "sleep"
                 /\ now - ops[i].t0 >= ops[i].to * MsPerSecond) =>
                    (ops'[i] = Idle /\ ret'.op = "start" /\ ret'.out = TimeoutNote)
             /\ (ops[i].pc # "poll" /\ ops'[i].pc = "poll") =>
                    now - ops'[i].t0 < ops'[i].to * MsPerSecond]_vars

C13_Witness ==
    /\ ret.op = "start" /\ ret.out = TimeoutNote
    /\ getTmuxSession(ret.id) \in sessions
    /\ objs[tasks[ret.id]].status = "running"

\* C14: while a start call is suspended in its wait loop, every other
\* operation can begin (a request for start, getStatus, getOutput, send, list
\* or stop, for any id, is taken at once) and every other invocation in flight
\* can take its next step: nothing waits for the start call to return.
C14_WaitDoesNotBlock ==
    \A j \in Slots :
        (ops[j].kind = "start" /\ ops[j].pc \in {"poll", "sleep"}) =>
            \A i \in Slots \ {j} :
                /\ (/\ ops[i] = Idle /\ calls < MaxCalls
                    /\ \A l \in Slots : l < i => ops[l] # Idle) =>
                       /\ Len(objs) < MaxTasks =>
                             \A w \in WaitChoices, to \in TimeoutChoices :
                                 ENABLED StartCall(i, w, to)
                       /\ \A id \in CallIds :
                             /\ ENABLED GetCall(i, "getStatus", id)
                             /\ ENABLED GetCall(i, "getOutput", id)
                             /\ ENABLED SendCall(i, id)
                             /\ ENABLED StopCall(i, id)
                       /\ ENABLED ListCall(i)
                /\ ops[i].ph = "pending" => ENABLED ExecCmd(i)
                /\ ops[i].ph = "returned" => ENABLED Resume(i)

\* an operation on the task a start call is waiting for has run to completion
C14_Witness ==
    /\ ret.op \in {"getStatus", "getOutput", "send", "stop"} /\ ret.err = ""
    /\ \E j \in Slots : /\ ops[j].kind = "start" /\ ops[j].pc \in {"poll", "sleep"}
                         /\ ops[j].id = ret.id

C16_StopThenStop ==
    [][/\ \A i \in Slots :
             /\ (ops[i] = Idle /\ ops'[i].kind = "stop") =>
                    /\ objs[ops'[i].task].status = "running"
                    /\ tasks[ops'[i].id] = ops'[i].task
             /\ (ops[i].kind = "stop" /\ ops[i].ph = "returned" /\ ops'[i] # ops[i]) =>
                    /\ ops'[i] = Idle
                    /\ ret'.op = "stop" /\ ret'.id = ops[i].id
                    /\ ret'.ok /\ ret'.err = ""
                    /\ objs'[ops[i].task].status = "stopped"
                    /\ objs'[ops[i].task].endTime = now
       /\ (/\ calls' = calls + 1 /\ ret'.op = "stop"
           /\ ret'.id \in DOMAIN tasks /\ objs[tasks[ret'.id]].status # "running") =>
              /\ ~ret'.ok /\ ret'.err = "Task is not running"
              /\ ret'.status = objs[tasks[ret'.id]].status
              /\ UNCHANGED <<objs, tasks, order, sessions, ops>>
       /\ (ret'.op = "stop" /\ ret'.err = "Task is not running") =>
              /\ calls' = calls + 1
              /\ objs[tasks[ret'.id]].status # "running"]_vars

\* the second stop of a stopped task has returned
C16_Witness ==
    /\ ret.op = "stop" /\ ret.err = "Task is not running" /\ ret.status = "stopped"
    /\ objs[tasks[ret.id]].status = "stopped"
    /\ objs[tasks[ret.id]].endTime # NoTime

\* C17: a send that found its task 'running' and whose has-session check
\* finds the session gone marks the task 'completed' with endTime set and
\* returns sent = false ('Task has already completed'); send-keys is issued
\* only after a check that found the session alive.
C17_SendAfterSessionEnded ==
    [][\A i \in Slots :
          /\ (/\ ops[i].kind = "send" /\ ops[i].pc = "check" /\ ops[i].ph = "pending"
              /\ ops'[i].ph = "returned") =>
                 /\ ops[i].sess = objs[ops[i].task].tmuxSession
                 /\ (ops'[i].res.out = "done") <=> (ops[i].sess \notin sessions)
          /\ (/\ ops[i].kind = "send" /\ ops[i].pc = "check" /\ ops[i].ph = "returned"
              /\ ops[i].res.out = "done" /\ ops'[i] # ops[i]) =>
                 /\ ops'[i] = Idle
                 /\ objs'[ops[i].task].status = "completed"
                 /\ objs'[ops[i].task].endTime = now
                 /\ ret'.op = "send" /\ ret'.id = ops[i].id
                 /\ ~ret'.ok /\ ret'.err = "Task has already completed"
          /\ (ops[i].cmd # "keys" /\ ops'[i].cmd = "keys") =>
                 /\ ops[i].kind = "send" /\ ops[i].pc = "check"
                 /\ ops[i].res.out = "running"]_vars

\* the session of the task has ended since its start call returned
C17_Witness ==
    /\ ret.op = "send" /\ ~ret.ok /\ ret.err = "Task has already completed"
    /\ objs[tasks[ret.id]].status = "completed"
    /\ objs[tasks[ret.id]].endTime = now
    /\ getTmuxSession(ret.id) \notin sessions
    \* the session has existed: the task's start call polled it until the timeout
    /\ Len(objs) = 1 /\ ret.id \in timedOut

\* C18: a send for an unknown id, or for a task whose status is not
\* 'running', returns sent = false with an error at once: no record changes
\* and no command is issued; send goes on to its has-session check only for a
\* registered task that is 'running'.
C18_SendRejected ==
    [][/\ (/\ calls' = calls + 1 /\ ret'.op = "send") =>
              /\ ~ret'.ok
              /\ ret'.err = IF ret'.id \notin DOMAIN tasks THEN "Task not found"
                            ELSE "Task is not running"
              /\ ret'.id \in DOMAIN tasks => objs[tasks[ret'.id]].status # "running"
              /\ UNCHANGED <<objs, tasks, order, sessions, ops>>
       /\ \A i \in Slots :
             (ops[i] = Idle /\ ops'[i].kind = "send") =>
                 /\ ops'[i].id \in DOMAIN tasks
                 /\ tasks[ops'[i].id] = ops'[i].task
                 /\ objs[ops'[i].task].status = "running"]_vars

C18_Witness ==
    /\ ret.op = "send" /\ ~ret.ok /\ ret.err = "Task is not running"
    /\ ret.status = "stopped"
    /\ objs[tasks[ret.id]].status = "stopped"
    /\ \A i \in Slots : ops[i] = Idle

\* the handler of a list invocation runs in slot i: it begins, or it resumes
\* with the answer of has-session
ListStep(i) ==
    \/ /\ ops[i] = Idle /\ calls' = calls + 1
       /\ \A l \in Slots : l < i => ops[l] # Idle
       /\ ops'[i].kind = "list" \/ ret'.op = "list"
    \/ /\ ops[i].kind = "list" /\ ops[i].ph = "returned"
       /\ ops'[i] # ops[i]

GetReturns(i) == /\ ops[i].kind \in GetKinds /\ ops[i].pc = "cap"
                 /\ ops[i].ph = "returned" /\ ops'[i] = Idle

\* C20 as stated: getStatus and getOutput on a known id return a status
\* payload and no error whatever has-session and capture-pane did, and
\* whenever the capture failed (tmux found no session, or the command itself
\* failed) the returned output is '(session ended)'.
C20_SentinelOnEveryFailure ==
    [][/\ (ret'.op \in GetKinds /\ ret'.id \in DOMAIN tasks) =>
              (ret'.err = "" /\ ret'.status \in Terminal \cup {"running"})
       /\ \A i \in Slots :
             (GetReturns(i) /\ (ops[i].res.code # 0 \/ ops[i].res.out = "(session ended)")) =>
                 ret'.out = "(session ended)"]_vars

\* C20, amended: getStatus and getOutput on a known id return a status
\* payload and no error whatever has-session and capture-pane did; the output
\* is '(session ended)' when capture-pane ran and found no session, and it is
\* what executeCommand kept of stdout, or '(no output)' if that is empty, when
\* the command itself failed.
C20_PayloadNeverError ==
    [][/\ (ret'.op \in GetKinds /\ ret'.id \in DOMAIN tasks) =>
              (ret'.err = "" /\ ret'.status \in Terminal \cup {"running"})
       /\ \A i \in Slots :
             /\ (/\ ops[i].kind \in GetKinds /\ ops[i].pc = "cap"
                 /\ ops[i].ph = "pending" /\ ops'[i].ph = "returned"
                 /\ ops'[i].res.code = 0 /\ ops[i].sess \notin sessions) =>
                    ops'[i].res.out = "(session ended)"
             /\ GetReturns(i) =>
                    /\ ret'.op = ops[i].kind /\ ret'.id = ops[i].id /\ ret'.err = ""
                    /\ ret'.status = objs[ops[i].task].status
                    /\ ret'.out = IF ops[i].res.out = "" THEN "(no output)"
                                  ELSE ops[i].res.out
                    /\ ret'.out # ""
                    /\ (ops[i].res.code # 0) => ret'.out \in {"(no output)", "pane"}]_vars

\* has-session found the session gone, the capture command then failed
C20_Witness ==
    /\ ret.op \in GetKinds /\ ret.err = "" /\ ret.status = "completed"
    /\ ret.chk = "done" /\ ret.code # 0 /\ ret.out = "(no output)"
    /\ getTmuxSession(ret.id) \notin sessions

\* the operations that take a task id
ById == {"getStatus", "getOutput", "send", "stop"}

\* C21: getStatus, getOutput, send and stop called with an id that start never
\* issued return the error value 'Task not found' at once: no record, no
\* registry entry and no session changes, and no command is issued; no
\* invocation is ever in flight for such an id.
C21_UnknownIdNotFound ==
    [][/\ \A i \in Slots :
             ops'[i].kind \in ById => ops'[i].id \in IssuedIds
       /\ (/\ calls' = calls + 1 /\ ret'.op \in ById
           /\ ret'.id \notin IssuedIds) =>
              /\ ret'.err = "Task not found" /\ ~ret'.ok /\ ret'.status = ""
              /\ UNCHANGED <<objs, tasks, order, sessions, ops>>]_vars

\* a stop for an unknown id has returned while the registry holds a running task
C21_Witness ==
    /\ ret.op = "stop" /\ ret.id = UnknownId /\ ret.err = "Task not found"
    /\ \E o \in DOMAIN objs : objs[o].status = "running"
    /\ sessions # {}

\* C22: the diagnostic of a failed session creation is retained as the output
\* of the task: getStatus and getOutput on a 'failed' task return it.
C22_DiagnosticRetained ==
    (ret.op \in GetKinds /\ ret.status = "failed") =>
        ret.out = "Failed to start tmux session"

\* the handler of a getStatus or getOutput invocation resumes in slot i with
\* the answer of has-session
GetResumesChecked(i) == /\ ops[i].kind \in GetKinds /\ ops[i].pc = "check"
                        /\ ops[i].ph = "returned" /\ ops'[i] # ops[i]

C28_RuntimeStable ==
    [][/\ \A o \in DOMAIN objs :
             /\ RuntimeSeconds(objs[o]) >= 0
             /\ RuntimeSeconds(objs[o]) =
                    IF objs[o].endTime # NoTime
                    THEN (objs[o].endTime - objs[o].startTime) \div MsPerSecond
                    ELSE (now - objs[o].startTime) \div MsPerSecond
             /\ objs[o].status \in Terminal =>
                    RuntimeSeconds(objs[o])' = RuntimeSeconds(objs[o])
       /\ \A i \in Slots :
             GetResumesChecked(i) =>
                 (ops[i].kind = "getStatus" =>
                     ops'[i].rt = RuntimeSeconds(objs'[ops[i].task]))
       /\ \A n \in DOMAIN ret'.list :
             ret'.list[n].runtimeSeconds = RuntimeSeconds(objs[tasks[order[n]]])']_vars

\* C29: stop on a 'running' task marks it 'stopped' with endTime set and
\* returns stopped = true whatever kill-session returned: the exit code of
\* the teardown changes neither the transition nor the result, and stop
\* itself does nothing else to the sessions.
C29_StopWhateverKillDid ==
    [][\A i \in Slots :
          /\ (ops[i] = Idle /\ ops'[i].kind = "stop") =>
                 /\ ops'[i].cmd = "kill" /\ ops'[i].ph = "pending"
                 /\ ops'[i].sess = objs[ops'[i].task].tmuxSession
          /\ (ops[i].kind = "stop" /\ ops[i].ph = "returned" /\ ops'[i] # ops[i]) =>
                 /\ ops[i].res.code \in {0, 1}
                 /\ objs' = [objs EXCEPT ![ops[i].task].status = "stopped",
                                         ![ops[i].task].endTime = now]
                 /\ ret' = [NoRet EXCEPT !.op = "stop", !.id = ops[i].id, !.ok = TRUE]
                 /\ sessions' = sessions]_vars

\* stop has returned stopped = true though kill-session failed: the session lives
C29_Witness ==
    /\ ret.op = "stop" /\ ret.ok
    /\ Len(objs) = 1 /\ objs[1].status = "stopped" /\ objs[1].endTime = now
    /\ objs[1].tmuxSession \in sessions

\* C30: once has-session has answered 'running', send issues send-keys to the
\* task's session and returns sent = true exactly when its exit code is 0,
\* and sent = false with the error 'Failed to send' otherwise; in both cases
\* send writes no record: status and endTime stay as they are.
C30_SendReportsDelivery ==
    [][\A i \in Slots :
          /\ (/\ ops[i].kind = "send" /\ ops[i].pc = "check" /\ ops[i].ph = "returned"
              /\ ops[i].res.out = "running" /\ ops'[i] # ops[i]) =>
                 /\ ops'[i].pc = "keys" /\ ops'[i].cmd = "keys" /\ ops'[i].ph = "pending"
                 /\ ops'[i].sess = objs[ops[i].task].tmuxSession
                 /\ objs' = objs
          /\ (/\ ops[i].kind = "send" /\ ops[i].pc = "keys" /\ ops[i].ph = "returned"
              /\ ops'[i] # ops[i]) =>
                 /\ ops'[i] = Idle
                 /\ ret'.op = "send" /\ ret'.id = ops[i].id
                 /\ ret'.ok <=> (ops[i].res.code = 0)
                 /\ ret'.err = IF ops[i].res.code = 0 THEN "" ELSE "Failed to send"
                 /\ objs' = objs]_vars

\* send-keys failed on a live session: sent = false, the task is still 'running'
C30_Witness ==
    /\ ret.op = "send" /\ ~ret.ok /\ ret.err = "Failed to send"
    /\ Len(objs) = 1 /\ objs[1].status = "running" /\ objs[1].endTime = NoTime
    /\ objs[1].tmuxSession \in sessions

----------------------------------------------------------------------------
(* OAuth and the HTTP routes *)

\* const PIN = process.env.MCP_PIN || 'changeme'
PIN == "changeme"

\* the pin fields submitted
Pins == {PIN, "0000"}

\* the redirect URIs clients name
Uris == {"https://a.example/cb", "https://b.example/cb"}

\* an absent or empty text parameter
NoText == <<>>

\* the code verifiers clients hold
Verifiers == {<<"v1">>, <<"v2">>}

\* crypto.createHash('sha256').update(v).digest('base64url')
Sha256(v) == <<"sha256">> \o v

\* the PKCE parameters of an authorization request: none, plain and S256
Challenges == {[challenge |-> NoText, method |-> ""],
               [challenge |-> <<"v1">>, method |-> "plain"],
               [challenge |-> Sha256(<<"v1">>), method |-> "S256"]}

\* the codes and the tokens created so far
Created(kind) == {r.id : r \in {x \in issued : x.kind = kind}}

\* the code and token parameters: every one created so far, and one made up
Guesses(kind) == Created(kind) \cup {0}

\* the routes whose handler passes the body to handleMcpRequest
McpRoutes == {"POST /mcp", "POST /", "POST /.well-known/oauth-authorization-server"}

\* request bodies: a JSON-RPC tools/call of a task tool and, where the route
\* looks at the body, one that is no JSON-RPC request
Bodies(route) == IF route = "POST /.well-known/oauth-authorization-server"
                 THEN {"call", "junk"} ELSE {"call"}

\* the client_id parameters: every registered client and one made up
ClientIds == (DOMAIN clients) \cup {0}

\* Authorization headers: none, 'Basic <cred>' and 'Bearer <cred>'
Headers == {NoHeader, [scheme |-> "Basic", cred |-> 0]}
               \cup [scheme : {"Bearer"}, cred : Guesses("token")]

\* the instants the clock is looked at: the start, and the end of each
\* lifetime counted from the start, to the millisecond and one later
Instants == {1} \cup {1 + k * life + b : k \in 1..MaxAuthSteps,
                                       life \in {CodeLifetimeMs, TokenLifetimeMs},
                                       b \in 0..1}

\* map.delete(key)
MapDelete(m, key) == [x \in (DOMAIN m) \ {key} |-> m[x]]

\* a step of the HTTP layer that invokes no task handler and leaves the clock
HttpOnly ==
    /\ ret' = NoRet
    /\ UNCHANGED <<now, objs, tasks, order, sessions, ops, calls, observed, timedOut>>

\* time passes
AuthTick ==
    /\ \E t \in Instants : t > now /\ now' = t
    /\ ret' = NoRet
    /\ UNCHANGED <<objs, tasks, order, sessions, ops, calls, observed, timedOut>>
    /\ UNCHANGED oauthVars

\* oauth.ts lines 35-48; client_name and created_at, which nothing reads, are
\* left out
registerClient(uris) ==
    MapSet(clients, uuids + 1, [client_id |-> uuids + 1, client_secret |-> uuids + 2,
                                redirect_uris |-> uris])

\* index.ts lines 216-232: POST /oauth/register
PostRegister(uris) ==
    /\ IF uris = {}
       THEN /\ http' = [NoHttp EXCEPT !.route = "POST /oauth/register", !.status = 400]
            /\ UNCHANGED <<clients, uuids>>
       ELSE /\ Cardinality(DOMAIN clients) < MaxClients
            /\ clients' = registerClient(uris)
            /\ uuids' = uuids + 2
            /\ http' = [NoHttp EXCEPT !.route = "POST /oauth/register", !.status = 201,
                                      !.out = uuids + 1]
    /\ UNCHANGED <<authCodes, accessTokens, issued>>
    /\ HttpOnly

\* validatePin with a defect: every pin is taken
validatePin_Any(pin) == pin \in Pins

\* oauth.ts lines 129-131
validatePin(pin) == pin = PIN

\* oauth.ts lines 55-71
createAuthCode(clientId, redirectUri, codeChallenge, codeChallengeMethod) ==
    MapSet(authCodes, uuids + 1,
           [code |-> uuids + 1, client_id |-> clientId, redirect_uri |-> redirectUri,
            code_challenge |-> codeChallenge,
            code_challenge_method |-> codeChallengeMethod,
            expires_at |-> now + 10 * 60 * 1000])

\* index.ts lines 242-249: the client is registered with this redirect URI
KnownRedirect(c, r) == c \in DOMAIN clients /\ r \in clients[c].redirect_uris

\* index.ts lines 235-260: GET /oauth/authorize shows the PIN form, or answers
\* 400 for an unknown client or redirect URI; it stores nothing
GetAuthorize(c, r) ==
    /\ http' = [NoHttp EXCEPT !.route = "GET /oauth/authorize",
                              !.status = IF KnownRedirect(c, r) THEN 200 ELSE 400]
    /\ UNCHANGED <<clients, authCodes, accessTokens, uuids, issued>>
    /\ HttpOnly

\* index.ts lines 263-280: POST /oauth/authorize
PostAuthorize(c, r, ch, m, pin) ==
    /\ IF ~validatePin(pin)
       THEN /\ http' = [NoHttp EXCEPT !.route = "POST /oauth/authorize", !.status = 200,
                                      !.pin = pin]
            /\ UNCHANGED <<authCodes, uuids, issued>>
       ELSE /\ Cardinality(Created("code")) < MaxCodes
            /\ authCodes' = createAuthCode(c, r, ch, m)
            /\ uuids' = uuids + 1
            /\ issued' = issued \cup {[kind |-> "code", id |-> uuids + 1, pin |-> pin,
                                       code |-> NoUuid, at |-> now]}
            /\ http' = [NoHttp EXCEPT !.route = "POST /oauth/authorize", !.status = 302,
                                      !.pin = pin, !.out = uuids + 1]
    /\ UNCHANGED <<clients, accessTokens>>
    /\ HttpOnly

\* oauth.ts lines 83 and 122: expires_at < Date.now()
Expired(rec) == rec.expires_at < now

\* oauth.ts lines 89-103: the PKCE test of a stored code against the verifier v
PkceOk(a, v) ==
    a.code_challenge # NoText =>
        /\ v # NoText
        /\ (IF a.code_challenge_method = "S256" THEN Sha256(v) ELSE v) = a.code_challenge

\* oauth.ts lines 79-82: the code is stored for this client and redirect URI
CodeMatches(code, clientId, redirectUri) ==
    /\ code \in DOMAIN authCodes
    /\ authCodes[code].client_id = clientId
    /\ authCodes[code].redirect_uri = redirectUri

\* oauth.ts lines 73-107: the value validateAuthCode returns
validateAuthCode(code, clientId, redirectUri, codeVerifier) ==
    /\ CodeMatches(code, clientId, redirectUri)
    /\ ~Expired(authCodes[code])
    /\ PkceOk(authCodes[code], codeVerifier)

\* oauth.ts lines 80-102: the return statement validateAuthCode takes, "" for
\* the last one (return true)
WhyRefused(code, clientId, redirectUri, codeVerifier) ==
    IF code \notin DOMAIN authCodes THEN "unknown"
    ELSE IF authCodes[code].client_id # clientId THEN "client"
    ELSE IF authCodes[code].redirect_uri # redirectUri THEN "redirect"
    ELSE IF Expired(authCodes[code]) THEN "expired"
    ELSE IF ~PkceOk(authCodes[code], codeVerifier) THEN "pkce"
    ELSE ""

\* AuthCodesAfter with a defect: every refusal of a stored code removes it
AuthCodesAfter_DeletesOnRefusal(code, clientId, redirectUri, codeVerifier) ==
    IF code \in DOMAIN authCodes THEN MapDelete(authCodes, code) ELSE authCodes

\* AuthCodesAfter with a defect: a redeemed code stays in the store
AuthCodesAfter_NotSingleUse(code, clientId, redirectUri, codeVerifier) ==
    IF CodeMatches(code, clientId, redirectUri) /\ Expired(authCodes[code])
    THEN MapDelete(authCodes, code)
    ELSE authCodes

\* oauth.ts lines 84 and 105: the code store validateAuthCode leaves
AuthCodesAfter(code, clientId, redirectUri, codeVerifier) ==
    IF /\ CodeMatches(code, clientId, redirectUri)
       /\ \/ Expired(authCodes[code])
          \/ PkceOk(authCodes[code], codeVerifier)
    THEN MapDelete(authCodes, code)
    ELSE authCodes

\* oauth.ts lines 109-117
createAccessToken(clientId) ==
    MapSet(accessTokens, uuids + 1,
           [token |-> uuids + 1, client_id |-> clientId,
            expires_at |-> now + 24 * 60 * 60 * 1000])

\* index.ts lines 283-302: POST /oauth/token
PostToken(g, code, r, c, v) ==
    /\ IF g # "authorization_code"
       THEN /\ http' = [NoHttp EXCEPT !.route = "POST /oauth/token", !.status = 400,
                                      !.code = code, !.why = "grant"]
            /\ UNCHANGED <<authCodes, accessTokens, uuids, issued>>
       ELSE IF ~validateAuthCode(code, c, r, v)
       THEN /\ authCodes' = AuthCodesAfter(code, c, r, v)
            /\ http' = [NoHttp EXCEPT !.route = "POST /oauth/token", !.status = 400,
                                      !.code = code, !.why = WhyRefused(code, c, r, v)]
            /\ UNCHANGED <<accessTokens, uuids, issued>>
       ELSE /\ Cardinality(Created("token")) < MaxTokens
            /\ authCodes' = AuthCodesAfter(code, c, r, v)
            /\ accessTokens' = createAccessToken(c)
            /\ uuids' = uuids + 1
            /\ issued' = issued \cup {[kind |-> "token", id |-> uuids + 1, pin |-> "",
                                       code |-> code, at |-> now]}
            /\ http' = [NoHttp EXCEPT !.route = "POST /oauth/token", !.status = 200,
                                      !.code = code, !.out = uuids + 1]
    /\ UNCHANGED clients
    /\ HttpOnly

\* validateAccessToken with a defect: a token is refused at its expiry instant
validateAccessToken_ExpiresEarly(token) ==
    /\ token \in DOMAIN accessTokens
    /\ ~(accessTokens[token].expires_at <= now)

\* oauth.ts lines 119-127: the value validateAccessToken returns
validateAccessToken(token) ==
    /\ token \in DOMAIN accessTokens
    /\ ~Expired(accessTokens[token])

\* oauth.ts lines 120-125: the token store validateAccessToken leaves
AccessTokensAfter(token) ==
    IF token \in DOMAIN accessTokens /\ ~validateAccessToken(token)
    THEN MapDelete(accessTokens, token)
    ELSE accessTokens

\* requireAuth with a defect: any Bearer header passes
requireAuth_AnyBearer(hdr) == hdr.scheme = "Bearer"

\* index.ts lines 330-343: requireAuth calls next()
requireAuth(hdr) == hdr.scheme = "Bearer" /\ validateAccessToken(hdr.cred)

\* A request for one of the MCP routes has arrived; express.json() reads the
\* body before the route's middleware runs.
McpArrive(route, hdr, body) ==
    /\ http' = [NoHttp EXCEPT !.route = route, !.hdr = hdr, !.body = body,
                              !.seq = calls]
    /\ UNCHANGED <<clients, authCodes, accessTokens, uuids, issued>>
    /\ HttpOnly

\* the request last received waits for its route's middleware and handler
Pending == http.route \in McpRoutes /\ http.status = 0 /\ http.seq = calls

\* index.ts lines 333-340: requireAuth answers 401
Unauthorized ==
    /\ Pending /\ ~requireAuth(http.hdr)
    /\ http' = [NoHttp EXCEPT !.route = http.route, !.status = 401]
    /\ accessTokens' = IF http.hdr.scheme = "Bearer"
                       THEN AccessTokensAfter(http.hdr.cred) ELSE accessTokens
    /\ UNCHANGED <<clients, authCodes, uuids, issued>>
    /\ HttpOnly

\* index.ts lines 195-198: the body goes to handleMcpRequest
IsMcp(route, body) ==
    route = "POST /.well-known/oauth-authorization-server" => body = "call"

\* index.ts lines 193-202: authorized, but the body is no JSON-RPC request
NotMcp ==
    /\ Pending /\ requireAuth(http.hdr) /\ ~IsMcp(http.route, http.body)
    /\ http' = [NoHttp EXCEPT !.route = http.route, !.status = 400]
    /\ UNCHANGED <<clients, authCodes, accessTokens, uuids, issued>>
    /\ HttpOnly

\* index.ts lines 193-198, 346-352, 361-366: requireAuth has called next() and
\* the route passes the tools/call to handleMcpRequest
Authorized ==
    /\ Pending /\ requireAuth(http.hdr) /\ IsMcp(http.route, http.body)

\* mcp.ts lines 321-335: tools/call start_claude_code_task, for the first task
McpStart(i) == Authorized /\ objs = <<>> /\ StartCall(i, FALSE, 1)

AuthNext ==
    \/ AuthTick
    \/ \E uris \in {{}, {"https://a.example/cb"}} : PostRegister(uris)
    \/ \E c \in ClientIds, r \in Uris : GetAuthorize(c, r)
    \/ \E c \in ClientIds, r \in Uris, ch \in Challenges, pin \in Pins :
          PostAuthorize(c, r, ch.challenge, ch.method, pin)
    \/ \E code \in Guesses("code"), r \in Uris, c \in ClientIds,
          v \in Verifiers \cup {NoText} : PostToken("authorization_code", code, r, c, v)
    \/ PostToken("refresh_token", 0, "https://a.example/cb", 0, NoText)
    \/ \E route \in McpRoutes, hdr \in Headers :
          \E body \in Bodies(route) : McpArrive(route, hdr, body)
    \/ Unauthorized
    \/ NotMcp
    \/ \E i \in Slots : McpStart(i)
    \/ \E i \in Slots : ExecCmd(i)
    \/ \E i \in Slots : StartCreated(i)

AuthSpec == Init /\ [][AuthNext]_vars

----------------------------------------------------------------------------
(* The prompt summary of list *)

\* lines 36-65: the first start call, with a prompt text of any length
PromptStart(i, p) == objs = <<>> /\ StartPrompt(i, FALSE, 1, p)

\* one task started with any of the prompts, then listed
PromptNext ==
    \/ \E i \in Slots, p \in Prompts : PromptStart(i, p)
    \/ \E i \in Slots : ExecCmd(i)
    \/ \E i \in Slots : StartCreated(i)
    \/ \E i \in Slots : ListCall(i)
    \/ \E i \in Slots : ListChecked(i)

PromptSpec == Init /\ [][PromptNext]_vars

\* C23: in the result of list the prompt summary of a task is its prompt text
\* unchanged when the text has at most 100 units, a text of exactly 100
\* included, and the first 100 units of the text followed by '...' when it has
\* more.
C23_PromptSummary ==
    \A n \in DOMAIN ret.list :
        LET p == objs[tasks[order[n]]].prompt
            s == ret.list[n].prompt
        IN /\ Len(p) <= 100 => s = p
           /\ Len(p) > 100 =>
                 /\ Len(s) = 103
                 /\ \A k \in 1..100 : s[k] = p[k]
                 /\ s[101] = "." /\ s[102] = "." /\ s[103] = "."

\* list has summarised a prompt of 101 units whose 100th unit is the "x"
C23_Witness ==
    /\ ret.op = "list" /\ Len(ret.list) = 1
    /\ objs[1].prompt = Text(SummaryLen + 1, SummaryLen)
    /\ Len(ret.list[1].prompt) = SummaryLen + 3
    /\ ret.list[1].prompt[SummaryLen] = "x"

----------------------------------------------------------------------------
(* Access to the MCP routes *)

\* the route's middleware and handler answer the waiting request in this step
Served == Pending /\ (calls' = calls + 1 \/ (http'.status # 0 /\ http'.route \in McpRoutes))

\* the waiting request carries a Bearer token that is stored and not expired
HasValidToken ==
    /\ http.hdr.scheme = "Bearer"
    /\ http.hdr.cred \in DOMAIN accessTokens
    /\ now <= accessTokens[http.hdr.cred].expires_at

\* C24: a task handler is invoked only in the serving of a POST /mcp, POST /
\* or POST /.well-known/oauth-authorization-server request that carries a
\* Bearer access token which is stored and not expired; a request without
\* one (no header, another scheme, an unknown or an expired token) is
\* answered 401 and invokes no handler, changes no task and issues no command.
C24_HandlerBehindToken ==
    [][/\ calls' = calls + 1 =>
             /\ Pending /\ HasValidToken
             /\ http.hdr.cred \in Created("token")
             /\ accessTokens' = accessTokens
       /\ (Served /\ ~HasValidToken) =>
             /\ http'.status = 401 /\ http'.route = http.route
             /\ calls' = calls
             /\ UNCHANGED <<objs, tasks, order, sessions, ops>>]_vars

\* a start was invoked, and a later request to the metadata route without a
\* valid token was answered 401
C24_Witness ==
    /\ objs # <<>> /\ calls = 1
    /\ http.route = "POST /.well-known/oauth-authorization-server"
    /\ http.status = 401

\* C25: an access token is accepted exactly when createAccessToken issued it
\* and the time is not later than its issue time plus 24 hours; a validation
\* after that instant fails and removes the token from the store, and a token
\* once removed is never stored again, so every later validation fails.
C25_TokenLifetime ==
    [][/\ (Served /\ http.hdr.scheme = "Bearer") =>
             LET t == http.hdr.cred
                 accepted == http'.status # 401
                 made == {r \in issued : r.kind = "token" /\ r.id = t}
             IN /\ accepted <=> \E r \in made : now <= r.at + TokenLifetimeMs
                /\ ~accepted => t \notin DOMAIN accessTokens'
                /\ accepted => accessTokens' = accessTokens
       /\ \A t \in Created("token") :
             t \notin DOMAIN accessTokens => t \notin DOMAIN accessTokens']_vars

\* a token was refused one millisecond after its 24 hours and is gone
C25_Witness ==
    /\ http.status = 401
    /\ \E r \in issued : /\ r.kind = "token" /\ now = r.at + TokenLifetimeMs + 1
                            /\ r.id \notin DOMAIN accessTokens

\* C26: an access token is created only by a POST /oauth/token that redeems a
\* stored authorization code, and an authorization code only by a POST
\* /oauth/authorize whose pin is the configured PIN; a wrong pin creates no
\* code; so every stored token goes back to a code created on the correct PIN.
C26_TokenBehindPin ==
    /\ [](\A t \in DOMAIN accessTokens :
             \E rt \in issued, rc \in issued :
                 /\ rt.kind = "token" /\ rt.id = t
                 /\ rc.kind = "code" /\ rc.id = rt.code
                 /\ rc.pin = PIN /\ rc.at <= rt.at)
    /\ [][/\ \A t \in (DOMAIN accessTokens') \ DOMAIN accessTokens :
                /\ http'.route = "POST /oauth/token" /\ http'.status = 200
                /\ http'.out = t
                /\ http'.code \in (DOMAIN authCodes) \ DOMAIN authCodes'
          /\ \A c \in (DOMAIN authCodes') \ DOMAIN authCodes :
                /\ http'.route = "POST /oauth/authorize" /\ http'.status = 302
                /\ http'.pin = PIN /\ http'.out = c
          /\ (http'.route = "POST /oauth/authorize" /\ http'.pin # PIN) =>
                /\ authCodes' = authCodes /\ http'.status = 200]_vars

\* a token has been issued for a code
C26_Witness ==
    /\ http.route = "POST /oauth/token" /\ http.status = 200
    /\ http.out \in DOMAIN accessTokens
    /\ http.code \notin DOMAIN authCodes

----------------------------------------------------------------------------
(* Session handles *)

\* C31: the session handle of every task is the one getTmuxSession derives
\* from its id, no operation modifies it after creation, and no two distinct
\* tasks have the same session handle.
C31_SessionHandle ==
    /\ [](\A o \in DOMAIN objs : objs[o].tmuxSession = getTmuxSession(objs[o].taskId))
    /\ [][\A o \in DOMAIN objs : /\ o \in DOMAIN objs'
                                 /\ objs'[o].tmuxSession = objs[o].tmuxSession
                                 /\ objs'[o].taskId = objs[o].taskId]_vars
    /\ [](\A o1, o2 \in DOMAIN objs :
             o1 # o2 => objs[o1].tmuxSession # objs[o2].tmuxSession)

----------------------------------------------------------------------------
(* Authorization codes *)

\* POST /oauth/token has answered in this step
TokenAnswered == http'.route = "POST /oauth/token" /\ http' # http

\* validateAuthCode returned true in this step: a token was issued
Redeemed == TokenAnswered /\ http'.status = 200

\* the history records of the codes created
CodesMade == {r \in issued : r.kind = "code"}

\* the history records of the tokens created
TokensMade == {r \in issued : r.kind = "token"}

\* C32: an authorization code is single use. A redemption takes a stored code
\* no token was issued on before, not later than 10 minutes after the code
\* was created, and removes it from the store; a code once removed is never
\* stored again, so every later validateAuthCode for it returns false; no two
\* access tokens were issued on the same code.
C32_CodeSingleUse ==
    /\ [](\A t1, t2 \in TokensMade : t1.code = t2.code => t1 = t2)
    /\ [][/\ Redeemed =>
                /\ http'.code \in DOMAIN authCodes
                /\ http'.code \notin DOMAIN authCodes'
                /\ \A t \in TokensMade : t.code # http'.code
                /\ \E r \in CodesMade : /\ r.id = http'.code
                                        /\ now <= r.at + CodeLifetimeMs
          /\ \A c \in Created("code") :
                (c \notin DOMAIN authCodes) => (c \notin DOMAIN authCodes')
          /\ (TokenAnswered /\ http'.code \notin DOMAIN authCodes) =>
                http'.status = 400 /\ accessTokens' = accessTokens]_vars

\* the code that was redeemed has been presented again and refused
C32_Witness ==
    /\ http.route = "POST /oauth/token" /\ http.status = 400
    /\ http.code \in Created("code")
    /\ \E t \in TokensMade : t.code = http.code

----------------------------------------------------------------------------
(* Sessions behind terminal tasks *)

\* what a command does when tmux kill-session never fails on a session that
\* exists
KillWorksOutcomes(cmd, s) ==
    IF cmd = "kill" /\ s \in sessions
    THEN {[res |-> [out |-> "", code |-> 0], sessions |-> sessions \ {s}]}
    ELSE CmdOutcomes(cmd, s)

\* the pending command of slot i runs; kill-session succeeds on a live session
ExecKillWorks(i) ==
    /\ ops[i].ph = "pending"
    /\ \E oc \in KillWorksOutcomes(ops[i].cmd, ops[i].sess) :
          /\ ops' = [ops EXCEPT ![i].ph = "returned", ![i].res = oc.res]
          /\ sessions' = oc.sessions
    /\ NoReply
    /\ UNCHANGED calls
    /\ UNCHANGED <<now, objs, tasks, order>>

KillNext ==
    \/ Tick
    \/ \E s \in sessions : SessionEnds(s)
    \/ \E i \in Slots : ExecKillWorks(i)
    \/ \E i \in Slots, w \in WaitChoices, to \in TimeoutChoices : StartCall(i, w, to)
    \/ \E i \in Slots : StartCreated(i)
    \/ \E i \in Slots : StartPolled(i)
    \/ \E i \in Slots : StartWake(i)
    \/ \E i \in Slots : StartOutChecked(i)
    \/ \E i \in Slots : StartOutCaptured(i)
    \/ \E i \in Slots, id \in CallIds : GetCall(i, "getStatus", id)
    \/ \E i \in Slots, id \in CallIds : GetCall(i, "getOutput", id)
    \/ \E i \in Slots : GetChecked(i)
    \/ \E i \in Slots : GetCaptured(i)
    \/ \E i \in Slots, id \in CallIds : SendCall(i, id)
    \/ \E i \in Slots : SendChecked(i)
    \/ \E i \in Slots : SendKeysDone(i)
    \/ \E i \in Slots : ListCall(i)
    \/ \E i \in Slots : ListChecked(i)
    \/ \E i \in Slots, id \in CallIds : StopCall(i, id)
    \/ \E i \in Slots : StopKilled(i)

KillSpec == Init /\ [][KillNext]_vars

\* no other task has the session handle of task object o
OwnHandle(o) ==
    \A o2 \in DOMAIN objs : o2 # o => objs[o2].tmuxSession # objs[o].tmuxSession

\* C33: when every kill-session on an existing session succeeds, the session
\* of a task whose status is terminal does not exist, at any time from the
\* moment the status is terminal. Stated for the tasks that share their
\* handle with no other task.
C33_NoSessionBehindTerminal ==
    \A o \in DOMAIN objs :
        (objs[o].status \in Terminal /\ OwnHandle(o)) =>
            objs[o].tmuxSession \notin sessions

\* C34: every authorization code in the store was issued for a client_id that
\* is registered and a redirect_uri among that client's registered
\* redirect_uris.
C34_CodesForRegisteredClients ==
    \A code \in DOMAIN authCodes :
        KnownRedirect(authCodes[code].client_id, authCodes[code].redirect_uri)

\* C35: a validateAuthCode call refused for a wrong client_id, a wrong
\* redirect_uri or a missing or non-matching PKCE verifier leaves the code
\* store as it is; a code leaves the store only in a successful redemption of
\* it or in a call that finds it expired; and every stored code that is not
\* expired is accepted when presented with its own client_id and
\* redirect_uri and the right verifier.
C35_RefusalKeepsCode ==
    /\ [](\A c \in DOMAIN authCodes :
             ~Expired(authCodes[c]) =>
                 \E v \in Verifiers \cup {NoText} :
                     validateAuthCode(c, authCodes[c].client_id,
                                      authCodes[c].redirect_uri, v))
    /\ [][/\ (TokenAnswered /\ http'.why \in {"client", "redirect", "pkce"}) =>
                /\ authCodes' = authCodes
                /\ http'.code \in DOMAIN authCodes'
                /\ http'.status = 400
          /\ \A c \in (DOMAIN authCodes) \ DOMAIN authCodes' :
                /\ TokenAnswered /\ http'.code = c
                /\ \/ http'.status = 200
                   \/ http'.why = "expired" /\ authCodes[c].expires_at < now]_vars

\* a code was refused for its PKCE verifier and is still stored, unexpired
C35_Witness ==
    /\ http.route = "POST /oauth/token" /\ http.why = "pkce"
    /\ http.code \in DOMAIN authCodes
    /\ ~Expired(authCodes[http.code])

====
